---- MODULE Spec2Model ----
(***************************************************************************)
(* Arcade-Cube (src/src/main.js): the game loop, update() and the code it  *)
(* calls, the key handlers and the landing tween, as a state machine.      *)
(*                                                                         *)
(* Lengths are integers in 1/Resolution of a world unit.  timeRemaining is *)
(* an IEEE-754 double, kept exactly as an integer number of 2^-58 seconds  *)
(* in three limbs of 22 bits (every value the timer takes is a multiple of *)
(* 2^-58: 1/60 is 0x11111111111111 * 2^-58 as a double).                   *)
(***************************************************************************)
EXTENDS Integers, Sequences, FiniteSets

---------------------------------------------------------------------------
(* Bounds of the model *)

\* lengths are kept to 1/Resolution of a unit
Resolution == 10
\* half-extent of the arena (200 in init and createBoundary), scaled down
\* so that bounded runs reach the walls
MazeSize == 19
\* game ticks explored by Spec
MaxTicks == 2
\* milliseconds of Date.now() between two animation frames
FrameMs == 728
\* game ticks explored by SpecHazard, by SpecLife and by SpecArena
MaxHazardTicks == 5
MaxLifeTicks == 5
MaxArenaTicks == 5
\* game ticks explored by SpecClock (the timer runs out after 1801)
MaxClockTicks == 1810
\* game ticks explored by SpecTween
MaxTweenTicks == 3
\* calls of update explored by SpecStep: the 1801 of a session without a
\* pickup and the ones made after the last of them returned false
MaxStepTicks == 1803
\* game ticks explored by SpecClear (the clear-all triangle shows at the
\* 50th pickup), and the pickups of it that may roll a hazard
MaxClearTicks == 52
MaxHazardPickups == 2

---------------------------------------------------------------------------
(* Program constants *)

cubeSize == 10
wallThickness == 5
wallHeight == 15
dropHeight == 1000
tweenDuration == 1000
maxTime == 60
startTime == 30
startLives == 3
maxLives == 4
pushDistance == 2
maxAttempts == 100
clearAllEvery == 50
coneRadius == 5
coneHeight == 10

U(n) == n * Resolution
half(n) == (n * Resolution) \div 2

---------------------------------------------------------------------------
(* IEEE-754 doubles in [-64, 64] that are multiples of 2^-58 *)

\* 2^22
Limb == 2048 * 2048

Norm(a, b, d) ==
    LET b1 == b + (d \div Limb)
    IN  <<a + (b1 \div Limb), b1 % Limb, d % Limb>>

FNeg(x) == Norm(-x[1], -x[2], -x[3])

FIsNeg(x) == x[1] < 0

FLess(x, y) ==
    \/ x[1] < y[1]
    \/ x[1] = y[1] /\ x[2] < y[2]
    \/ x[1] = y[1] /\ x[2] = y[2] /\ x[3] < y[3]

\* x, non-negative, rounded to a multiple of p = 2^k, ties to even
RoundTo(x, p) ==
    Norm(x[1], x[2],
         x[3] - (x[3] % p)
           + (IF \/ 2 * (x[3] % p) > p
                 \/ 2 * (x[3] % p) = p /\ (x[3] \div p) % 2 = 1
              THEN p ELSE 0))

\* the unit in the last place, in 2^-58, of a non-negative value below 64
\* whose first limb is a: a value of at least 2^(e + 58), which is a first
\* limb of at least 2^(e + 14), has the unit 2^(e + 6)
Ulp(a) ==
    IF a < 512 THEN 1
    ELSE IF a < 1024 THEN 2
    ELSE IF a < 2048 THEN 4
    ELSE IF a < 4096 THEN 8
    ELSE IF a < 8192 THEN 16
    ELSE IF a < 16384 THEN 32
    ELSE IF a < 32768 THEN 64
    ELSE IF a < 65536 THEN 128
    ELSE IF a < 131072 THEN 256
    ELSE IF a < 262144 THEN 512
    ELSE IF a < 524288 THEN 1024
    ELSE 2048

\* round a non-negative exact value to 53 significant bits
RoundMag(x) == RoundTo(x, Ulp(x[1]))

FRound(x) == IF FIsNeg(x) THEN FNeg(RoundMag(FNeg(x))) ELSE RoundMag(x)

FAdd(x, y) == FRound(Norm(x[1] + y[1], x[2] + y[2], x[3] + y[3]))

FSub(x, y) == FAdd(x, FNeg(y))

FMulInt(x, n) == FRound(Norm(x[1] * n, x[2] * n, x[3] * n))

FMin(x, y) == IF FLess(y, x) THEN y ELSE x

FMax(x, y) == IF FLess(x, y) THEN y ELSE x

\* the double of a whole number of seconds
FInt(n) == <<n * 16384, 0, 0>>

FZero == FInt(0)

\* the double 0.5
FHalf == <<8192, 0, 0>>

\* the double 0.2 = 0x1999999999999a * 2^-55
FFifth == <<3276, 3355443, 838864>>

\* the double 1/60 = 0x11111111111111 * 2^-58
FTickStep == <<273, 279620, 1118481>>

---------------------------------------------------------------------------
(* Geometry: THREE.Box3 of the meshes, in 1/Resolution units *)

Vec(x, y, z) == [x |-> x, y |-> y, z |-> z]

Box(minv, maxv) == [min |-> minv, max |-> maxv]

\* Box3.setFromCenterAndSize(position, (10, 10, 10)), and the box of a cube mesh
CubeBox(p) ==
    Box(Vec(p.x - half(cubeSize), p.y - half(cubeSize), p.z - half(cubeSize)),
        Vec(p.x + half(cubeSize), p.y + half(cubeSize), p.z + half(cubeSize)))

\* ConeGeometry(5, 10, 3) turned by pi about x: the base corners are at
\* (0, 5), (+-5 sin 120, -2.5) before the turn, which negates z
ConeBox(p) ==
    Box(Vec(p.x - (433 * U(coneRadius)) \div 500, p.y - half(coneHeight),
            p.z - U(coneRadius)),
        Vec(p.x + (433 * U(coneRadius)) \div 500, p.y + half(coneHeight),
            p.z + half(coneRadius)))

\* Box3.intersectsBox: closed intervals on the three axes
IntersectsBox(a, b) ==
    ~ \/ a.max.x < b.min.x \/ a.min.x > b.max.x
      \/ a.max.y < b.min.y \/ a.min.y > b.max.y
      \/ a.max.z < b.min.z \/ a.min.z > b.max.z

\* the four walls of createBoundary, as boxes
walls ==
    LET m == U(MazeSize)
        t == half(wallThickness)
        h == U(wallHeight)
    IN  << Box(Vec(-m, 0, m - t), Vec(m, h, m + t)),
           Box(Vec(-m, 0, -m - t), Vec(m, h, -m + t)),
           Box(Vec(m - t, 0, -m), Vec(m + t, h, m)),
           Box(Vec(-m - t, 0, -m), Vec(-m + t, h, m)) >>

checkCollision(box1, box2) == IntersectsBox(box1, box2)

checkWallCollision(playerBox) ==
    \E i \in 1..Len(walls) : IntersectsBox(playerBox, walls[i])

ShiftBox(b, v) ==
    Box(Vec(b.min.x + v.x, b.min.y + v.y, b.min.z + v.z),
        Vec(b.max.x + v.x, b.max.y + v.y, b.max.z + v.z))

---------------------------------------------------------------------------
(* State *)

VARIABLES
    keys,              \* the keys object of setupControls: the names held true
    player,            \* player.position
    collectible,       \* collectible.position
    obstacles,         \* the obstacles array, in order
    lifeTriangle,      \* lifeTriangle.position and .visible
    clearAllTriangle,  \* clearAllTriangle.position and .visible
    gameState,         \* score, timeRemaining, lives
    difficulty,        \* the variable difficulty of init
    running,           \* gameLoop is scheduled for the next animation frame
    loopDue,           \* gameLoop has yet to run in the current animation frame
    now,               \* Date.now(), in milliseconds since init
    ticks,             \* calls of update so far
    last               \* what the latest call of update computed and returned

vars == <<keys, player, collectible, obstacles, lifeTriangle, clearAllTriangle,
          gameState, difficulty, running, loopDue, now, ticks, last>>

\* the properties of the keys object
KeyNames == {"ArrowUp", "ArrowDown", "ArrowLeft", "ArrowRight",
             "w", "a", "s", "d", "z", "q"}

\* e.key.toLowerCase() for the values of e.key the model presses
toLowerCase ==
    [k \in {"ArrowUp", "ArrowDown", "ArrowLeft", "ArrowRight",
            "w", "a", "s", "d", "z", "q", "W", "D"} |->
       CASE k = "ArrowUp" -> "arrowup"
         [] k = "ArrowDown" -> "arrowdown"
         [] k = "ArrowLeft" -> "arrowleft"
         [] k = "ArrowRight" -> "arrowright"
         [] k = "W" -> "w"
         [] k = "D" -> "d"
         [] OTHER -> k]

\* Math.random() returns n/10 for a draw n in 0..9
RandomCoord(n) ==
    LET halfCubeSize == half(cubeSize)
        effectiveMazeSize == U(MazeSize) - halfCubeSize
        \* Math.floor(Math.random() * (effectiveMazeSize * 2) - effectiveMazeSize)
        whole == (n * 2 * effectiveMazeSize - 10 * effectiveMazeSize)
                 \div (10 * Resolution)
        c == U(whole)
        hi == U(MazeSize) - halfCubeSize
    IN  IF c > hi THEN hi ELSE IF c < -hi THEN -hi ELSE c

repositionObject(rx, rz) == Vec(RandomCoord(rx), half(cubeSize), RandomCoord(rz))

createObstacle(isHazard) ==
    [x |-> 0, y |-> IF isHazard THEN half(cubeSize) ELSE U(dropHeight), z |-> 0,
     isHazard |-> isHazard, rot |-> 0, startTime |-> 0, tween |-> FALSE,
     due |-> FALSE]

\* Box3.setFromObject(obstacle), taken as the cube about the position of
\* the obstacle: the rotation of an obstacle in its landing tween, which
\* widens the box of the turned cube, is left out
ObstacleBox(o) == CubeBox(Vec(o.x, o.y, o.z))

\* easeOutBounce(ms / 1000) in 1/10000
easeOutBounce(ms) ==
    IF 11 * ms < 4000 THEN (121 * ms * ms) \div 1600
    ELSE IF 11 * ms < 8000
         THEN ((11 * ms - 6000) * (11 * ms - 6000)) \div 1600 + 7500
    ELSE IF 11 * ms < 10000
         THEN ((11 * ms - 9000) * (11 * ms - 9000)) \div 1600 + 9375
    ELSE ((22 * ms - 21000) * (22 * ms - 21000)) \div 6400 + 9844

\* a tween that ends without the reset of the rotation
animateKeepsRotation(o, elapsed) ==
    IF elapsed < tweenDuration
    THEN [o EXCEPT !.y = U(dropHeight)
                       + ((half(cubeSize) - U(dropHeight)) * easeOutBounce(elapsed))
                         \div 10000,
                   !.rot = @ + 1,
                   !.tween = TRUE]
    ELSE [o EXCEPT !.y = half(cubeSize), !.tween = FALSE]

\* one run of animate() for an obstacle, elapsed milliseconds after the start
animate(o, elapsed) ==
    IF elapsed < tweenDuration
    THEN [o EXCEPT !.y = U(dropHeight)
                       + ((half(cubeSize) - U(dropHeight)) * easeOutBounce(elapsed))
                         \div 10000,
                   !.rot = @ + 1,
                   !.tween = TRUE]
    ELSE [o EXCEPT !.y = half(cubeSize), !.rot = 0, !.tween = FALSE]

\* animateObstacleLanding: startTime is taken and animate runs at once
animateObstacleLanding(o) == animate([o EXCEPT !.startTime = now], 0)

Held(ks, k) == IF k \in ks THEN 1 ELSE 0

\* the velocity updateMovement hands to applyMovement
Velocity(ks, moveSpeed) ==
    Vec(moveSpeed * (- Held(ks, "ArrowLeft") + Held(ks, "ArrowRight")
                     - Held(ks, "a") + Held(ks, "d")
                     - Held(ks, "q") + Held(ks, "d")),
        0,
        moveSpeed * (- Held(ks, "ArrowUp") + Held(ks, "ArrowDown")
                     - Held(ks, "w") + Held(ks, "s")
                     - Held(ks, "z") + Held(ks, "s")))

\* the move made without a look at the walls
applyMovementUnchecked(p, velocity) ==
    Vec(p.x + velocity.x, p.y + velocity.y, p.z + velocity.z)

\* a move that slides along a wall: the axis that is free is kept
applyMovementSliding(p, velocity) ==
    IF ~ checkWallCollision(ShiftBox(CubeBox(p), velocity))
    THEN Vec(p.x + velocity.x, p.y + velocity.y, p.z + velocity.z)
    ELSE IF ~ checkWallCollision(ShiftBox(CubeBox(p), Vec(velocity.x, 0, 0)))
    THEN Vec(p.x + velocity.x, p.y, p.z)
    ELSE IF ~ checkWallCollision(ShiftBox(CubeBox(p), Vec(0, 0, velocity.z)))
    THEN Vec(p.x, p.y, p.z + velocity.z)
    ELSE p

applyMovement(p, velocity) ==
    IF checkWallCollision(ShiftBox(CubeBox(p), velocity))
    THEN p
    ELSE Vec(p.x + velocity.x, p.y + velocity.y, p.z + velocity.z)

updateMovement(p, ks, moveSpeed) == applyMovement(p, Velocity(ks, moveSpeed))

\* 2 + difficulty * 0.5, in 1/Resolution
MoveSpeed(d) == U(2) + d * half(1)

\* Math.max(3 - difficulty * 0.2, 0.5), a double
TimeBonus(d) == FMax(FSub(FInt(3), FMulInt(FFifth, d)), FHalf)

\* the boundary test and the three overlap tests of isValidPosition
isValidPosition(position, obs, p, c) ==
    LET Abs(v) == IF v < 0 THEN -v ELSE v
        tempBox == CubeBox(position)
    IN  /\ ~ (Abs(position.x) >= U(MazeSize) \/ Abs(position.z) >= U(MazeSize))
        /\ \A i \in 1..Len(obs) : ~ IntersectsBox(tempBox, ObstacleBox(obs[i]))
        /\ ~ IntersectsBox(tempBox, CubeBox(p))
        /\ ~ IntersectsBox(tempBox, CubeBox(c))

NoPosition == [ok |-> FALSE, x |-> 0, y |-> 0, z |-> 0]

Found(v) == [ok |-> TRUE, x |-> v.x, y |-> v.y, z |-> v.z]

\* the loop of findValidObstaclePosition over candidates of which valid pass
\* isValidPosition: it returns the candidate of attempt i when it is valid,
\* which takes i rejected candidates before it, and null when the candidates
\* of all maxAttempts attempts are rejected
AttemptLoop(valid, rejected) ==
    (IF {i \in 0..(maxAttempts - 1) : i = 0 \/ rejected # {}} # {}
     THEN {Found(v) : v \in valid} ELSE {})
      \cup (IF maxAttempts = 0 \/ rejected # {} THEN {NoPosition} ELSE {})

Candidates(draws) == {repositionObject(rx, rz) : rx \in draws, rz \in draws}

ValidAmong(candidates, p, c, obs) ==
    AttemptLoop({v \in candidates : isValidPosition(v, obs, p, c)},
                {v \in candidates : ~ isValidPosition(v, obs, p, c)})

\* what findValidObstaclePosition can return when Math.random() draws from draws
findValidObstaclePosition(p, c, obs, draws) ==
    ValidAmong(Candidates(draws), p, c, obs)

\* round(pushDistance * |d| / sqrt(n)) in 1/Resolution, for a component d of
\* a vector of squared length n: the number of k with
\* (k - 1/2) * sqrt(n) <= pushDistance * Resolution * |d|
PushComponent(d, n) ==
    LET mag == Cardinality({k \in 1..U(pushDistance) :
                 (2 * k - 1) * (2 * k - 1) * n
                   <= (2 * U(pushDistance) * d) * (2 * U(pushDistance) * d)})
    IN  IF n = 0 THEN 0 ELSE IF d < 0 THEN - mag ELSE mag

\* the push made without a look at the walls
PushToUnchecked(p, potentialPosition) == potentialPosition

\* lines 361-366: the push is applied when the pushed box meets no wall
PushTo(p, potentialPosition) ==
    IF checkWallCollision(CubeBox(potentialPosition)) THEN p ELSE potentialPosition

PotentialBy(p, dx, dy, dz, n) ==
    Vec(p.x + PushComponent(dx, n), p.y + PushComponent(dy, n),
        p.z + PushComponent(dz, n))

\* lines 356-358: potentialPosition for the push away from obstacle o,
\* player.position + normalize(player.position - o.position) * 2
PotentialPosition(p, o) ==
    PotentialBy(p, p.x - o.x, p.y - o.y, p.z - o.z,
                (p.x - o.x) * (p.x - o.x) + (p.y - o.y) * (p.y - o.y)
                  + (p.z - o.z) * (p.z - o.z))

\* lines 356-366: the player position after the push away from obstacle o
PushedPosition(p, o) == PushTo(p, PotentialPosition(p, o))

RemoveAt(seq, i) == SubSeq(seq, 1, i - 1) \o SubSeq(seq, i + 1, Len(seq))

\* what the loop over the obstacles has done so far: hazards hit and hazards
\* removed, pushes tried and pushes a wall refused, and whether the iterator
\* went past an obstacle in touch with the player
NoneYet == [hits |-> 0, destroyed |-> 0, pushes |-> 0, refused |-> 0,
            skipped |-> FALSE]

\* the entry of the array that slides into place i when entry i is spliced
\* out, which the iterator, going on to place i + 1, never hands to the loop
PassedOver(i, st) ==
    /\ i + 1 <= Len(st.obstacles)
    /\ checkCollision(CubeBox(st.player), ObstacleBox(st.obstacles[i + 1]))

AfterPush(st, potentialPosition) ==
    [st EXCEPT !.player = PushTo(@, potentialPosition),
               !.done.pushes = @ + 1,
               !.done.refused =
                   IF checkWallCollision(CubeBox(potentialPosition))
                   THEN @ + 1 ELSE @]

\* the loop "for (let obstacle of obstacles)" from index i on (1-based);
\* st.over is the early "return false"
RECURSIVE ObstacleLoop(_, _)
ObstacleLoop(i, st) ==
    IF i > Len(st.obstacles) THEN st
    ELSE LET o == st.obstacles[i] IN
         IF ~ checkCollision(CubeBox(st.player), ObstacleBox(o))
         THEN ObstacleLoop(i + 1, st)
         ELSE IF o.isHazard
         THEN IF st.lives - 1 <= 0
              THEN [st EXCEPT !.lives = @ - 1, !.over = TRUE,
                              !.done.hits = @ + 1]
              ELSE ObstacleLoop(i + 1,
                       [st EXCEPT !.lives = @ - 1,
                                  !.obstacles = RemoveAt(@, i),
                                  !.done.hits = @ + 1,
                                  !.done.destroyed = @ + 1,
                                  !.done.skipped = @ \/ PassedOver(i, st)])
         ELSE ObstacleLoop(i + 1, AfterPush(st, PotentialPosition(st.player, o)))

---------------------------------------------------------------------------
(* update(), lines 266-374 *)

\* lines 268-269: the move, then the player pinned to the ground
Moved ==
    [updateMovement(player, keys, MoveSpeed(difficulty)) EXCEPT !.y = half(cubeSize)]

\* applyMovement kept the player where it was although a key asked for a move
Blocked ==
    /\ Velocity(keys, MoveSpeed(difficulty)) # Vec(0, 0, 0)
    /\ updateMovement(player, keys, MoveSpeed(difficulty)) = player

\* line 272
Picked == checkCollision(CubeBox(Moved), CubeBox(collectible))

\* the new obstacle left where createObstacle made it
FallingObstacleNotMoved == animateObstacleLanding(createObstacle(FALSE))

\* lines 286-292: the new obstacle, pushed and handed to the landing tween
FallingObstacle ==
    animateObstacleLanding([createObstacle(FALSE) EXCEPT !.x = collectible.x,
                                                         !.z = collectible.z])

HazardObstacle(position) ==
    [createObstacle(TRUE) EXCEPT !.x = position.x, !.y = position.y,
                                 !.z = position.z]

\* Math.random() < 0.4 and Math.random() < 0.2 for a draw n/10
RollsHazard(roll) == roll < 4
RollsLife(roll) == roll < 2

\* the obstacles handed to the calls of findValidObstaclePosition in a tick
\* that picks the collectible up and placed its hazard at hz
ObstaclesAfterSpawn == IF Picked THEN Append(obstacles, FallingObstacle) ELSE obstacles

ObstaclesAfterHazard(hz) ==
    IF hz.ok THEN Append(ObstaclesAfterSpawn, HazardObstacle(hz))
    ELSE ObstaclesAfterSpawn

Placement(kind, position, p1, c, obs) ==
    [kind |-> kind, position |-> position, player |-> p1, collectible |-> c,
     obstacles |-> obs]

\* a spawn that goes on with whatever findValidObstaclePosition returned
SpawnsUnchecked(rolled, position) == rolled

\* lines 300, 307 and 316: a spawn that was rolled takes place when
\* findValidObstaclePosition returned a position, and is left out on null
Spawns(rolled, position) == rolled /\ position.ok

\* lines 272-321 for the moved player p1: the pickup of the collectible and
\* what it spawns
SpawnStage(in, p1) ==
    IF ~ checkCollision(CubeBox(p1), CubeBox(collectible))
    THEN [picked |-> FALSE, score |-> gameState.score,
          time |-> gameState.timeRemaining, bonus |-> FZero,
          difficulty |-> difficulty, collectible |-> collectible,
          obstacles |-> obstacles, lifeTriangle |-> lifeTriangle,
          clearAllTriangle |-> clearAllTriangle, placed |-> <<>>]
    ELSE LET hazard == RollsHazard(in.roll1)
             life == ~ RollsHazard(in.roll1) /\ RollsLife(in.roll2)
             clear == (gameState.score + 1) % clearAllEvery = 0
             c1 == repositionObject(in.rx, in.rz)
             obs1 == Append(obstacles, FallingObstacle)
             obs2 == IF Spawns(hazard, in.hazardPosition)
                     THEN Append(obs1, HazardObstacle(in.hazardPosition))
                     ELSE obs1
         IN  [picked |-> TRUE,
              score |-> gameState.score + 1,
              time |-> FMin(FAdd(gameState.timeRemaining, TimeBonus(difficulty)),
                            FInt(maxTime)),
              bonus |-> TimeBonus(difficulty),
              difficulty |-> difficulty + 1,
              collectible |-> c1,
              obstacles |-> obs2,
              lifeTriangle |->
                  IF Spawns(life, in.lifePosition)
                  THEN [x |-> in.lifePosition.x, y |-> in.lifePosition.y,
                        z |-> in.lifePosition.z, visible |-> TRUE]
                  ELSE lifeTriangle,
              clearAllTriangle |->
                  IF Spawns(clear, in.clearAllPosition)
                  THEN [x |-> in.clearAllPosition.x, y |-> in.clearAllPosition.y,
                        z |-> in.clearAllPosition.z, visible |-> TRUE]
                  ELSE clearAllTriangle,
              placed |->
                  (IF hazard
                   THEN <<Placement("hazard", in.hazardPosition, p1, c1, obs1)>>
                   ELSE <<>>)
                  \o (IF life
                      THEN <<Placement("life", in.lifePosition, p1, c1, obs1)>>
                      ELSE <<>>)
                  \o (IF clear
                      THEN <<Placement("clear", in.clearAllPosition, p1, c1, obs2)>>
                      ELSE <<>>)]

\* a life gained whatever lives is
GainsUncapped(touchesLife, lives) == touchesLife

\* line 325, for a player that touches the visible life triangle or not
Gains(touchesLife, lives) == touchesLife /\ lives < maxLives

\* the obstacles without the first of their hazards
WithoutFirstHazard(obs) ==
    IF \A i \in 1..Len(obs) : ~ obs[i].isHazard THEN obs
    ELSE RemoveAt(obs, CHOOSE i \in 1..Len(obs) :
                           /\ obs[i].isHazard
                           /\ \A j \in 1..(i - 1) : ~ obs[j].isHazard)

\* the clear-all that empties the array
WithoutObstacles(obs) == <<>>

\* lines 334-339: the loop from the last index down that splices every
\* hazard out of the obstacles
WithoutHazards(obs) == SelectSeq(obs, LAMBDA o : ~ o.isHazard)

\* lines 324-341 after s: the life triangle and the clear-all triangle
TriangleStage(s, p1) ==
    LET touchesLife == s.lifeTriangle.visible
                       /\ checkCollision(CubeBox(p1), ConeBox(s.lifeTriangle))
        gains == Gains(touchesLife, gameState.lives)
        touchesClear == s.clearAllTriangle.visible
                        /\ checkCollision(CubeBox(p1), ConeBox(s.clearAllTriangle))
    IN  [lives |-> IF gains THEN gameState.lives + 1 ELSE gameState.lives,
         lifeTriangle |-> [s.lifeTriangle EXCEPT !.visible = @ /\ ~ gains],
         touchedLife |-> touchesLife,
         touchedClear |-> touchesClear,
         obstacles |-> IF touchesClear THEN WithoutHazards(s.obstacles)
                       ELSE s.obstacles,
         clearAllTriangle |-> [s.clearAllTriangle EXCEPT
                                  !.visible = @ /\ ~ touchesClear]]

\* update going by the timer alone, without the tests of lives
ReturnsOnTimerOnly(over, time, lives) == FLess(FZero, time)

\* what update returns: false at line 350 when the loop ended early (over),
\* the value of line 373 otherwise
Returns(over, time, lives) == ~ over /\ FLess(FZero, time) /\ lives > 0

\* lines 371-373 after the obstacle loop left st and the timer at time
\* (the early return of the loop skips them)
ReturnStage(s, t, st, time) ==
    [player |-> st.player,
     collectible |-> s.collectible,
     obstacles |-> st.obstacles,
     lifeTriangle |-> t.lifeTriangle,
     clearAllTriangle |-> t.clearAllTriangle,
     gameState |-> [score |-> s.score, timeRemaining |-> time, lives |-> st.lives],
     last |-> [ret |-> Returns(st.over, time, st.lives),
               speed |-> MoveSpeed(difficulty),
               velocity |-> Velocity(keys, MoveSpeed(difficulty)),
               picked |-> s.picked,
               bonus |-> s.bonus,
               oldPosition |-> collectible,
               difficulty |-> s.difficulty,
               placed |-> s.placed,
               blocked |-> Blocked,
               loop |-> st.done,
               clear |-> [touched |-> t.touchedClear,
                          removed |-> Len(s.obstacles) - Len(t.obstacles)],
               life |-> [touched |-> t.touchedLife, before |-> gameState.lives,
                         after |-> t.lives,
                         visible |-> t.lifeTriangle.visible]]]

\* lines 344-373
LoopStage(s, t, st) ==
    ReturnStage(s, t, st, IF st.over THEN s.time ELSE FSub(s.time, FTickStep))

\* lines 323-369
CollisionStage(s, t, p1) ==
    LoopStage(s, t, ObstacleLoop(1, [player |-> p1, obstacles |-> t.obstacles,
                                     lives |-> t.lives, over |-> FALSE,
                                     done |-> NoneYet]))

UpdateFrom(s, p1) == CollisionStage(s, TriangleStage(s, p1), p1)

\* one call of update: in holds what Math.random() and the calls of
\* findValidObstaclePosition returned; the result holds every value the
\* call leaves behind and, in last.ret, the value it returns
update(in) == UpdateFrom(SpawnStage(in, Moved), Moved)

---------------------------------------------------------------------------
(* Actions *)

\* The callbacks of requestAnimationFrame run once per animation frame, in
\* the order of their registration: animate of every obstacle in its landing
\* tween (registered in update, or in the callback itself) comes before
\* gameLoop (registered after update returned).

Due(obs) == \E i \in 1..Len(obs) : obs[i].due

\* what the draws hand to a call of update that picks nothing up
NoInput ==
    [rx |-> 0, rz |-> 0, roll1 |-> 0, roll2 |-> 0, hazardPosition |-> NoPosition,
     lifePosition |-> NoPosition, clearAllPosition |-> NoPosition]

\* the clear-all positions line 315 can get; clear: the score reaches a
\* multiple of clearAllEvery
Clears(clear, c1, obs, draws) ==
    IF clear THEN findValidObstaclePosition(Moved, c1, obs, draws)
    ELSE {NoPosition}

\* the inputs of a pickup that rolls a hazard (line 297)
HazardInputs(rx, rz, roll1, clear, c1, draws) ==
    UNION { {[NoInput EXCEPT !.rx = rx, !.rz = rz, !.roll1 = roll1,
                             !.hazardPosition = hz, !.clearAllPosition = cl] :
               cl \in Clears(clear, c1, ObstaclesAfterHazard(hz), draws)} :
            hz \in findValidObstaclePosition(Moved, c1, ObstaclesAfterSpawn, draws) }

\* the inputs of a pickup that rolls no hazard and then a life (line 305)
LifeInputs(rx, rz, roll1, roll2, clear, c1, draws) ==
    {[NoInput EXCEPT !.rx = rx, !.rz = rz, !.roll1 = roll1, !.roll2 = roll2,
                     !.lifePosition = lf, !.clearAllPosition = cl] :
       lf \in findValidObstaclePosition(Moved, c1, ObstaclesAfterSpawn, draws),
       cl \in Clears(clear, c1, ObstaclesAfterSpawn, draws)}

\* the inputs of a pickup that rolls neither
PlainInputs(rx, rz, roll1, roll2, clear, c1, draws) ==
    {[NoInput EXCEPT !.rx = rx, !.rz = rz, !.roll1 = roll1, !.roll2 = roll2,
                     !.clearAllPosition = cl] :
       cl \in Clears(clear, c1, ObstaclesAfterSpawn, draws)}

PickupInputs(rx, rz, roll1, clear, c1, D) ==
    IF RollsHazard(roll1)
    THEN HazardInputs(rx, rz, roll1, clear, c1, D.place)
    ELSE UNION { IF RollsLife(roll2)
                 THEN LifeInputs(rx, rz, roll1, roll2, clear, c1, D.place)
                 ELSE PlainInputs(rx, rz, roll1, roll2, clear, c1, D.place) :
                 roll2 \in D.roll2 }

\* what Math.random() and findValidObstaclePosition can hand to one call of
\* update in the current state, Math.random() drawing from D.position for the
\* collectible, D.roll1 and D.roll2 for the two rolls, D.place for the
\* candidates of findValidObstaclePosition, all in tenths: nothing is drawn
\* unless the collectible is picked up, the second roll only when the first
\* spawns no hazard
Inputs(D) ==
    IF ~ Picked THEN {NoInput}
    ELSE UNION { PickupInputs(d[1], d[2], d[3],
                              (gameState.score + 1) % clearAllEvery = 0,
                              repositionObject(d[1], d[2]), D) :
                 d \in D.position \X D.position \X D.roll1 }

\* gameLoop, lines 538-546: one call of update, rescheduled while it
\* returns true
GameLoop(D, maxTicks) ==
    /\ loopDue
    /\ ~ Due(obstacles)
    /\ ticks < maxTicks
    /\ \E in \in Inputs(D) :
           \E r \in {update(in)} :
               /\ player' = r.player
               /\ collectible' = r.collectible
               /\ obstacles' = r.obstacles
               /\ lifeTriangle' = r.lifeTriangle
               /\ clearAllTriangle' = r.clearAllTriangle
               /\ gameState' = r.gameState
               /\ last' = r.last
               /\ running' = r.last.ret
    /\ loopDue' = FALSE
    /\ ticks' = ticks + 1
    /\ UNCHANGED <<keys, difficulty, now>>

\* one more call of update, as gameLoop makes it (line 539), on the objects
\* of a session whose latest call returned false: gameLoop has stopped and
\* is not scheduled again, whatever the call returns
UpdateAfterGameOver(D, maxTicks) ==
    /\ ticks > 0
    /\ ~ running
    /\ ticks < maxTicks
    /\ \E in \in Inputs(D) :
           \E r \in {update(in)} :
               /\ player' = r.player
               /\ collectible' = r.collectible
               /\ obstacles' = r.obstacles
               /\ lifeTriangle' = r.lifeTriangle
               /\ clearAllTriangle' = r.clearAllTriangle
               /\ gameState' = r.gameState
               /\ last' = r.last
    /\ ticks' = ticks + 1
    /\ UNCHANGED <<keys, difficulty, running, loopDue, now>>

\* the keydown listener, lines 196-198; init calls gameLoop before it
\* returns, so no event is handled before the first call of update
KeyDown(e) ==
    /\ ticks > 0
    /\ keys' = IF toLowerCase[e] \in KeyNames THEN keys \cup {toLowerCase[e]}
               ELSE keys
    /\ UNCHANGED <<player, collectible, obstacles, lifeTriangle, clearAllTriangle,
                   gameState, difficulty, running, loopDue, now, ticks, last>>

\* the keyup listener, lines 200-202
KeyUp(e) ==
    /\ ticks > 0
    /\ keys' = IF toLowerCase[e] \in KeyNames THEN keys \ {toLowerCase[e]}
               ELSE keys
    /\ UNCHANGED <<player, collectible, obstacles, lifeTriangle, clearAllTriangle,
                   gameState, difficulty, running, loopDue, now, ticks, last>>

\* the callback animate of obstacles[i], lines 246-260, the first one due
AnimateFrame(i) ==
    /\ i \in 1..Len(obstacles)
    /\ obstacles[i].due
    /\ \A j \in 1..(i - 1) : ~ obstacles[j].due
    /\ obstacles' = [obstacles EXCEPT
         ![i] = [animate(@, now - @.startTime) EXCEPT !.due = FALSE]]
    /\ UNCHANGED <<keys, player, collectible, lifeTriangle, clearAllTriangle,
                   gameState, difficulty, running, loopDue, now, ticks, last>>

\* the browser starts an animation frame once the callbacks of the frame
\* before have run: the registered callbacks become due; past maxTicks the
\* calls of gameLoop are left out and the tweens in flight go on
NextFrame(maxTicks) ==
    /\ ~ loopDue
    /\ ~ Due(obstacles)
    /\ \/ running /\ ticks < maxTicks
       \/ \E i \in 1..Len(obstacles) : obstacles[i].tween
    /\ now' = now + FrameMs
    /\ loopDue' = (running /\ ticks < maxTicks)
    /\ obstacles' = [i \in 1..Len(obstacles) |->
                        [obstacles[i] EXCEPT !.due = obstacles[i].tween]]
    /\ UNCHANGED <<keys, player, collectible, lifeTriangle, clearAllTriangle,
                   gameState, difficulty, running, ticks, last>>

\* init, lines 508-534 and 548, up to its call of gameLoop
InitWith(D) ==
    /\ keys = {}
    /\ player = Vec(0, half(cubeSize), 0)
    /\ collectible \in {repositionObject(rx, rz) : rx \in D.position,
                                                   rz \in D.position}
    /\ obstacles = <<>>
    /\ lifeTriangle = [x |-> 0, y |-> half(coneHeight), z |-> 0, visible |-> FALSE]
    /\ clearAllTriangle = [x |-> 0, y |-> half(coneHeight), z |-> 0, visible |-> FALSE]
    /\ gameState = [score |-> 0, timeRemaining |-> FInt(startTime),
                    lives |-> startLives]
    /\ difficulty = 0
    /\ running = TRUE
    /\ loopDue = TRUE
    /\ now = 0
    /\ ticks = 0
    /\ last = [ret |-> TRUE, speed |-> 0, velocity |-> Vec(0, 0, 0),
               picked |-> FALSE, bonus |-> FZero,
               oldPosition |-> Vec(0, half(cubeSize), 0),
               difficulty |-> 0, placed |-> <<>>, blocked |-> FALSE,
               loop |-> NoneYet,
               clear |-> [touched |-> FALSE, removed |-> 0],
               life |-> [touched |-> FALSE, before |-> startLives,
                         after |-> startLives, visible |-> FALSE]]

---------------------------------------------------------------------------
(* Specifications *)

\* Spec: two ticks with the collectible in reach of the player (draw 8) or
\* out of it (draw 1), either roll going both ways, and two candidates a
\* side for the placements
Draws == [position |-> {1, 8}, roll1 |-> {1, 9}, roll2 |-> {1, 9}, place |-> {1, 9}]
Pressed == {"s", "d", "ArrowUp"}

Init == InitWith(Draws)

Next ==
    \/ NextFrame(MaxTicks)
    \/ GameLoop(Draws, MaxTicks)
    \/ \E e \in Pressed : KeyDown(e)
    \/ \E e \in Pressed : KeyUp(e)
    \/ \E i \in 1..Len(obstacles) : AnimateFrame(i)

Spec == Init /\ [][Next]_vars

\* SpecClock: no key is pressed and the collectible starts out of reach, so
\* nothing but the timer changes, for as many ticks as the timer lasts
ClockDraws == [position |-> {1, 9}, roll1 |-> {1}, roll2 |-> {1}, place |-> {1}]

InitClock == InitWith(ClockDraws)

NextClock ==
    \/ NextFrame(MaxClockTicks)
    \/ GameLoop(ClockDraws, MaxClockTicks)

SpecClock == InitClock /\ [][NextClock]_vars

\* SpecHazard: the collectible respawns where the player starts, every
\* pickup rolls a hazard, placed among four candidates, and the player moves
\* towards them
HazardDraws == [position |-> {5}, roll1 |-> {1}, roll2 |-> {1}, place |-> {1, 5}]
HazardPressed == {"a", "w"}

InitHazard == InitWith(HazardDraws)

NextHazard ==
    \/ NextFrame(MaxHazardTicks)
    \/ GameLoop(HazardDraws, MaxHazardTicks)
    \/ \E e \in HazardPressed : KeyDown(e)
    \/ \E e \in HazardPressed : KeyUp(e)
    \/ \E i \in 1..Len(obstacles) : AnimateFrame(i)

SpecHazard == InitHazard /\ [][NextHazard]_vars

\* SpecLife: the collectible respawns where the player starts, every pickup
\* rolls a life, placed among nine candidates, and the player moves towards
\* them
LifeDraws == [position |-> {5}, roll1 |-> {9}, roll2 |-> {1}, place |-> {0, 5, 9}]
LifePressed == {"s", "d"}

InitLife == InitWith(LifeDraws)

NextLife ==
    \/ NextFrame(MaxLifeTicks)
    \/ GameLoop(LifeDraws, MaxLifeTicks)
    \/ \E e \in LifePressed : KeyDown(e)
    \/ \E e \in LifePressed : KeyUp(e)
    \/ \E i \in 1..Len(obstacles) : AnimateFrame(i)

SpecLife == InitLife /\ [][NextLife]_vars

\* SpecArena: the collectible is drawn at the two ends of the range of
\* Math.random(), the hazards and the lives at its low end, where a box
\* reaches the limit of the arena, and the player moves towards the far walls
ArenaDraws == [position |-> {0, 9}, roll1 |-> {1, 9}, roll2 |-> {1}, place |-> {0}]
ArenaPressed == {"s", "d"}

InitArena == InitWith(ArenaDraws)

NextArena ==
    \/ NextFrame(MaxArenaTicks)
    \/ GameLoop(ArenaDraws, MaxArenaTicks)
    \/ \E e \in ArenaPressed : KeyDown(e)
    \/ \E e \in ArenaPressed : KeyUp(e)
    \/ \E i \in 1..Len(obstacles) : AnimateFrame(i)

SpecArena == InitArena /\ [][NextArena]_vars

\* SpecClear: the collectible respawns where the player starts and the
\* player holds still, so that every tick picks it up, until the clear-all
\* triangle shows; the first pickups may roll a hazard, the later ones roll
\* nothing, and the placements have four candidates
ClearDraws(score) ==
    [position |-> {5},
     roll1 |-> IF score < MaxHazardPickups THEN {1, 9} ELSE {9},
     roll2 |-> {9},
     place |-> {1, 9}]
ClearPressed == {"s", "d"}

InitClear == InitWith(ClearDraws(0))

NextClear ==
    \/ NextFrame(MaxClearTicks)
    \/ GameLoop(ClearDraws(gameState.score), MaxClearTicks)
    \/ \E e \in ClearPressed : clearAllTriangle.visible /\ KeyDown(e)
    \/ \E e \in ClearPressed : clearAllTriangle.visible /\ KeyUp(e)
    \/ \E i \in 1..Len(obstacles) : AnimateFrame(i)

SpecClear == InitClear /\ [][NextClear]_vars

\* SpecStep: a session that is left alone until the timer ends it, and then
\* update called again on its objects, with the keys that lead to the
\* collectible held or not
StepDraws == [position |-> {1, 9}, roll1 |-> {9}, roll2 |-> {9}, place |-> {1}]
StepPressed == {"s", "d"}

InitStep == InitWith(StepDraws)

NextStep ==
    \/ NextFrame(MaxStepTicks)
    \/ GameLoop(StepDraws, MaxStepTicks)
    \/ UpdateAfterGameOver(StepDraws, MaxStepTicks)
    \/ \E e \in StepPressed : ~ running /\ KeyDown(e)
    \/ \E e \in StepPressed : ~ running /\ KeyUp(e)
    \/ \E i \in 1..Len(obstacles) : AnimateFrame(i)

SpecStep == InitStep /\ [][NextStep]_vars

\* SpecTween: pickups on the first ticks or later, with a hazard or without,
\* and the browser running every callback it has been handed: each animation
\* frame comes, and in it each animate and gameLoop that are due
TweenDraws == [position |-> {1, 8}, roll1 |-> {1, 9}, roll2 |-> {9}, place |-> {1}]
TweenPressed == {"d"}

InitTween == InitWith(TweenDraws)

NextTween ==
    \/ NextFrame(MaxTweenTicks)
    \/ GameLoop(TweenDraws, MaxTweenTicks)
    \/ \E e \in TweenPressed : KeyDown(e)
    \/ \E e \in TweenPressed : KeyUp(e)
    \/ \E i \in 1..Len(obstacles) : AnimateFrame(i)

\* GameLoop is enabled: it is due, and the callbacks before it have run
GameLoopDue(maxTicks) == loopDue /\ ~ Due(obstacles) /\ ticks < maxTicks

\* the fairness of GameLoop is weak fairness, written as the recurrence it
\* amounts to (a step of GameLoop leaves it disabled): gameLoop does not
\* stay due for ever
SpecTween ==
    /\ InitTween /\ [][NextTween]_vars
    /\ WF_vars(NextFrame(MaxTweenTicks))
    /\ WF_vars(\E i \in 1..Len(obstacles) : AnimateFrame(i))
    /\ []<>(~ GameLoopDue(MaxTweenTicks))

---------------------------------------------------------------------------
(* Properties *)

\* the calls of update 30 seconds take at 60 calls a second
TimerTicks == startTime * 60

\* a run so far without a pickup and without a hazard hit
QuietRun == gameState.score = 0 /\ gameState.lives = startLives

\* C1: in a run from the initial state without a pickup and without a hazard
\* hit, update returns true on every tick before tick 1800 and false on
\* tick 1800
TimerEndsOnTick1800 ==
    (ticks > 0 /\ QuietRun) =>
        /\ ticks < TimerTicks => last.ret
        /\ ticks = TimerTicks => ~ last.ret

\* C5: after every tick timeRemaining lies in [0, 60]
TimeInRange ==
    /\ ~ FIsNeg(gameState.timeRemaining)
    /\ ~ FLess(FInt(maxTime), gameState.timeRemaining)

\* C2: a tick in which a hazard collision brings lives to 0 returns false
\* whatever the timer says, and the session stops there: lives never goes
\* below 0, and from 3 lives the third collision is the one that ends it
HazardEndsSession ==
    /\ gameState.lives >= 0
    /\ gameState.lives = 0 => ~ last.ret /\ ~ running

\* three hazard collisions without a life in between, with time left
ThreeHazardsEndSession ==
    /\ gameState.lives = 0
    /\ ~ last.life.touched
    /\ FLess(FZero, gameState.timeRemaining)
    /\ ~ last.ret /\ ~ running

\* the collectibles picked up in the ticks before the latest one
PickedBefore == gameState.score - (IF last.picked THEN 1 ELSE 0)

\* C3: between two ticks the difficulty of the session is the number of
\* collectibles picked up so far, and the speed the latest tick handed to
\* updateMovement is 2 + 0.5 times the number picked up before it
DifficultyCountsPickups ==
    ticks > 0 =>
        /\ difficulty = gameState.score
        /\ 2 * last.speed = U(4) + PickedBefore * U(1)

\* C4: the pickup made when d collectibles have been picked up before it
\* adds max(3 - 0.2 d, 0.5) seconds
BonusDiminishes ==
    last.picked => last.bonus = TimeBonus(PickedBefore)

\* the x and z intervals of two boxes meet: the boxes stand on common ground
FootprintsMeet(a, b) ==
    ~ \/ a.max.x < b.min.x \/ a.min.x > b.max.x
      \/ a.max.z < b.min.z \/ a.min.z > b.max.z

Benign(obs) == SelectSeq(obs, LAMBDA o : ~ o.isHazard)

\* C8: a tick in which the player's box meets the collectible's adds 1 to
\* the score and one falling non-hazard obstacle at the x, z the collectible
\* had; any other tick leaves the score and the non-hazard obstacles alone
PickupSpawnsOne ==
    [][ticks' # ticks =>
         IF IntersectsBox(CubeBox(Moved), CubeBox(collectible))
         THEN /\ gameState'.score = gameState.score + 1
              /\ Len(Benign(obstacles')) = Len(Benign(obstacles)) + 1
              /\ SubSeq(Benign(obstacles'), 1, Len(Benign(obstacles)))
                   = Benign(obstacles)
              /\ LET new == Benign(obstacles')[Len(Benign(obstacles'))]
                 IN  /\ new.x = collectible.x /\ new.z = collectible.z
                     /\ new.y = U(dropHeight) /\ new.tween
              /\ Len(obstacles') <= Len(obstacles) + 2
         ELSE /\ gameState'.score = gameState.score
              /\ Benign(obstacles') = Benign(obstacles)
              /\ Len(obstacles') <= Len(obstacles)]_vars

\* a second pickup in a row, and its obstacle behind the first one
SecondPickupSpawned ==
    /\ last.picked /\ gameState.score = 2
    /\ Len(Benign(obstacles)) = 2

\* C9: after a pickup the collectible is at a position other than the one it
\* had, clear of the player's box and of the footprint of every obstacle
RespawnIsClear ==
    last.picked =>
        /\ <<collectible.x, collectible.z>>
             # <<last.oldPosition.x, last.oldPosition.z>>
        /\ ~ IntersectsBox(CubeBox(collectible), CubeBox(player))
        /\ \A i \in 1..Len(obstacles) :
              ~ FootprintsMeet(CubeBox(collectible), ObstacleBox(obstacles[i]))

\* C10: a position findValidObstaclePosition returned is clear of the
\* player, of the collectible and of the footprint of every obstacle it was
\* handed, landed or not
PlacementIsClear ==
    \A i \in 1..Len(last.placed) :
        LET at == last.placed[i] IN
        at.position.ok =>
            /\ ~ IntersectsBox(CubeBox(at.position), CubeBox(at.player))
            /\ ~ IntersectsBox(CubeBox(at.position), CubeBox(at.collectible))
            /\ \A j \in 1..Len(at.obstacles) :
                  ~ FootprintsMeet(CubeBox(at.position),
                                   ObstacleBox(at.obstacles[j]))

\* C6: lives stays in [0, 4]; a tick whose player touches the visible life
\* triangle with fewer than 4 lives gains exactly one and hides the triangle,
\* and one that touches it with 4 lives changes neither
LivesCapped ==
    /\ gameState.lives \in 0..maxLives
    /\ last.life.touched =>
          IF last.life.before < maxLives
          THEN last.life.after = last.life.before + 1 /\ ~ last.life.visible
          ELSE last.life.after = last.life.before /\ last.life.visible

\* the life triangle touched with 4 lives
TouchedAtFullLives ==
    /\ last.life.touched
    /\ last.life.before = maxLives
    /\ gameState.lives = maxLives
    /\ lifeTriangle.visible

\* the box b lies within [-mazeSize, mazeSize] on x and on z
InArena(b) ==
    /\ - U(MazeSize) <= b.min.x /\ b.max.x <= U(MazeSize)
    /\ - U(MazeSize) <= b.min.z /\ b.max.z <= U(MazeSize)

Hazards(obs) == SelectSeq(obs, LAMBDA o : o.isHazard)

\* none of the candidates findValidObstaclePosition can draw passes
\* isValidPosition for the placement at
Saturated(at, draws) ==
    \A v \in Candidates(draws) :
        ~ isValidPosition(v, at.obstacles, at.player, at.collectible)

\* a call of findValidObstaclePosition of the latest tick returned null
NullPlacement(l) == \E i \in 1..Len(l.placed) : ~ l.placed[i].position.ok

WallBlocksWholeMove ==
    [][ticks' # ticks =>
         LET v == Velocity(keys, MoveSpeed(difficulty))
             target == Vec(player.x + v.x, player.y + v.y, player.z + v.z)
             result == IF checkWallCollision(CubeBox(target)) THEN player
                       ELSE target
         IN  /\ Moved = [result EXCEPT !.y = half(cubeSize)]
             /\ v # Vec(0, 0, 0) =>
                   last'.blocked = checkWallCollision(CubeBox(target))
             /\ (\A i \in 1..Len(obstacles') :
                    obstacles'[i].isHazard
                    \/ ~ IntersectsBox(CubeBox(Moved), ObstacleBox(obstacles'[i])))
                  => player' = Moved]_vars

\* the tick refused a diagonal move whose x part meets a wall and whose z
\* part alone meets none
DiagonalMoveRefused ==
    /\ last.blocked
    /\ last.velocity.x # 0 /\ last.velocity.z # 0
    /\ checkWallCollision(ShiftBox(CubeBox(player), Vec(last.velocity.x, 0, 0)))
    /\ ~ checkWallCollision(ShiftBox(CubeBox(player), Vec(0, 0, last.velocity.z)))
    /\ \A i \in 1..Len(obstacles) :
          ~ IntersectsBox(CubeBox(player), ObstacleBox(obstacles[i]))

\* the push from position from to potentialPosition left the player at to:
\* at potentialPosition when the box there meets no wall, else at from
PushDecided(from, to, potentialPosition) ==
    to = IF checkWallCollision(CubeBox(potentialPosition)) THEN from
         ELSE potentialPosition

\* C13: the push away from a non-hazard obstacle is applied only when the
\* pushed box meets no wall and leaves the position alone otherwise, so
\* that the player's box meets no wall after the pushes of a tick: a tick
\* whose pushes were all refused leaves the player where the move put it,
\* and a tick with one push leaves it there or at the pushed position,
\* as the walls decide
PushKeepsOffWalls ==
    [][ticks' # ticks =>
         /\ ~ checkWallCollision(CubeBox(player'))
         /\ last'.loop.refused = last'.loop.pushes => player' = Moved
         /\ last'.loop.pushes = 1 =>
               \E i \in 1..Len(obstacles') :
                   /\ ~ obstacles'[i].isHazard
                   /\ IntersectsBox(CubeBox(Moved), ObstacleBox(obstacles'[i]))
                   /\ PushDecided(Moved, player',
                                   PotentialPosition(Moved, obstacles'[i]))]_vars

\* a tick whose one push would have put the player's box into a wall
PushRefusedAtWall ==
    /\ last.loop.pushes = 1 /\ last.loop.refused = 1
    /\ \E i \in 1..Len(obstacles) :
          /\ ~ obstacles[i].isHazard
          /\ IntersectsBox(CubeBox(player), ObstacleBox(obstacles[i]))
          /\ PotentialPosition(player, obstacles[i]) # player
          /\ checkWallCollision(CubeBox(PotentialPosition(player, obstacles[i])))

\* the placement of kind that the latest tick made, if it made one
Placed(l, kind) ==
    \E i \in 1..Len(l.placed) :
        l.placed[i].kind = kind /\ l.placed[i].position.ok

\* C14: a tick in which the player touches the visible clear-all triangle
\* leaves no hazard among the obstacles, leaves every non-hazard obstacle
\* as and where it was, behind which comes the one the tick spawned, and
\* hides the triangle; any other tick, the player upon the invisible
\* triangle included, removes no hazard but the ones the player ran into
ClearAllRemovesHazards ==
    [][ticks' # ticks =>
         IF last'.clear.touched
         THEN /\ Hazards(obstacles') = <<>>
              /\ Benign(obstacles')
                   = Benign(obstacles)
                       \o (IF last'.picked THEN <<FallingObstacle>> ELSE <<>>)
              /\ ~ clearAllTriangle'.visible
              /\ last'.loop.hits = 0
         ELSE /\ last'.clear.removed = 0
              /\ Len(Hazards(obstacles'))
                   = Len(Hazards(obstacles))
                       + (IF Placed(last', "hazard") THEN 1 ELSE 0)
                       - last'.loop.destroyed
              /\ clearAllTriangle'.visible
                   = (clearAllTriangle.visible \/ Placed(last', "clear"))]_vars

\* the clear-all triangle touched with two hazards among fifty and more
\* obstacles, the hazards apart from each other in the array
TwoHazardsCleared ==
    /\ last.clear.touched /\ last.clear.removed = 2
    /\ Len(obstacles) >= clearAllEvery
    /\ ~ clearAllTriangle.visible

\* C15: once a call of update has returned false, every later call on the
\* same objects returns false again, whatever keys are held
GameOverIsTerminal == ~ running => ~ last.ret

\* C16: every collision with a hazard in a tick costs exactly one life and
\* removes that hazard from the obstacles, the collision that brings lives
\* to 0 included
HazardHitDestroysHazard ==
    /\ gameState.lives = last.life.after - last.loop.hits
    /\ last.loop.destroyed = last.loop.hits

\* C17: in a tick that leaves lives above 0, every hazard the player is in
\* touch with when the loop reaches it is removed for one life, and the loop
\* goes past no obstacle in touch with the player without handling it
NoObstacleSkipped ==
    gameState.lives > 0 =>
        /\ last.loop.destroyed = last.loop.hits
        /\ ~ last.loop.skipped

\* C18: the life triangle is placed and shown only by a pickup made with
\* fewer than 4 lives; a pickup made with 4 lives leaves it alone
LifePlacedBelowFour ==
    Placed(last, "life") => last.life.before < maxLives

\* C19: whatever keys are held, each axis of the velocity a tick computes is
\* -speed, 0 or +speed
VelocityWithinSpeed ==
    /\ last.velocity.x \in {- last.speed, 0, last.speed}
    /\ last.velocity.z \in {- last.speed, 0, last.speed}

\* the values Date.now() can have when a tween of SpecTween starts
StartTimes == {k * FrameMs : k \in 0..MaxTweenTicks}

\* the obstacle whose tween started at t is in its tween, or has landed
Tweening(t) ==
    \E i \in 1..Len(obstacles) :
        /\ ~ obstacles[i].isHazard /\ obstacles[i].startTime = t
        /\ obstacles[i].tween
Landed(t) ==
    \E i \in 1..Len(obstacles) :
        /\ ~ obstacles[i].isHazard /\ obstacles[i].startTime = t
        /\ ~ obstacles[i].tween
        /\ obstacles[i].y = half(cubeSize) /\ obstacles[i].rot = 0

\* obstacle o but for what animate writes (and the mark of its callback)
ButTween(o) == [o EXCEPT !.y = 0, !.rot = 0, !.tween = FALSE, !.due = FALSE]

\* C20: a run of animate changes the height and the rotation of its own
\* obstacle and nothing else; the ticks come one per animation frame whatever
\* tweens are in flight; an obstacle that is not in a tween is left as it is;
\* and every tween that started ends with its obstacle at height
\* cubeSize / 2 and rotation 0
TweensIndependentAndComplete ==
    /\ [][(obstacles' # obstacles /\ ticks' = ticks /\ now' = now) =>
            /\ UNCHANGED <<keys, player, collectible, lifeTriangle,
                           clearAllTriangle, gameState, difficulty, running,
                           last>>
            /\ Len(obstacles') = Len(obstacles)
            /\ \E i \in 1..Len(obstacles) :
                  /\ obstacles[i].tween
                  /\ ButTween(obstacles'[i]) = ButTween(obstacles[i])
                  /\ \A j \in 1..Len(obstacles) :
                        j # i => obstacles'[j] = obstacles[j]]_vars
    /\ [][\A i \in 1..Len(obstacles) :
             (~ obstacles[i].isHazard /\ ~ obstacles[i].tween) =>
                 /\ obstacles[i].y = half(cubeSize)
                 /\ \E j \in 1..Len(obstacles') :
                       obstacles'[j] = obstacles[i]]_vars
    /\ [](running /\ ticks < MaxTweenTicks =>
             now = FrameMs * (IF loopDue THEN ticks ELSE ticks - 1))
    /\ \A t \in StartTimes : Tweening(t) ~> Landed(t)

\* two tweens in flight at once, at different heights, and a tick run then
TwoTweensInFlight ==
    /\ ~ loopDue /\ ticks > 1
    /\ \E i, j \in 1..Len(obstacles) :
          /\ obstacles[i].tween /\ obstacles[j].tween
          /\ obstacles[i].y < obstacles[j].y
          /\ obstacles[i].y < U(dropHeight)

\* the hazard obs holds at the position a placement returned
PlacedAt(l, o) ==
    \E i \in 1..Len(l.placed) :
        /\ l.placed[i].kind = "hazard" /\ l.placed[i].position.ok
        /\ o.x = l.placed[i].position.x /\ o.z = l.placed[i].position.z

\* the obstacles new that are no hazards are as many as score and are the
\* ones of old, each as it was but for its tween, with added more behind
\* them
BenignKept(old, new, added, score) ==
    /\ Len(new) = score
    /\ Len(new) = Len(old) + added
    /\ \/ SubSeq(new, 1, Len(old)) = old
       \/ \A i \in 1..Len(old) :
             new[i] = old[i] \/ ButTween(new[i]) = ButTween(old[i])

\* every hazard of new is one of old, or the one the tick placed
HazardsKept(old, new, tick, l) ==
    \A j \in 1..Len(new) :
        \/ \E k \in 1..Len(old) : old[k] = new[j]
        \/ tick /\ PlacedAt(l, new[j])

\* C21: after every tick the obstacles that are no hazards are as many as
\* the score; no step takes one of them away, moves it on the ground or
\* turns it into a hazard, a tick adds at most the one of its pickup behind
\* them, and a hazard among the obstacles was one before the step or is the
\* one the tick placed
ObstaclesMatchScore ==
    [][/\ BenignKept(Benign(obstacles), Benign(obstacles'),
                     IF ticks' # ticks /\ last'.picked THEN 1 ELSE 0,
                     gameState'.score)
       /\ HazardsKept(Hazards(obstacles), Hazards(obstacles'), ticks' # ticks, last')]_vars

\* fifty and more obstacles that are no hazards, as many as the score, after
\* a tick that cleared hazards away and pushed the player
ClearedWithScoreKept ==
    /\ last.clear.touched /\ last.clear.removed > 0
    /\ last.loop.pushes > 0
    /\ gameState.score >= clearAllEvery
    /\ Len(Benign(obstacles)) = gameState.score

====
